---- MODULE Spec2Model ----
(***************************************************************************)
(* Model of the route persistence and versioning engine of the GPX viewer: *)
(* RouteService (services/route_service.py) on top of GPXService           *)
(* (services/gpx_service.py).                                              *)
(*                                                                         *)
(* Representation.  Python strings on which the code does character work   *)
(* (filenames, route names, timestamps) are sequences of one-character     *)
(* strings, so that strip, startswith, endswith, splitext, slicing and     *)
(* lexicographic comparison are computed.  Other text (descriptions,       *)
(* waypoint labels) is a sequence of chunks.  Python None is the value     *)
(* None below.  A dict is a function whose DOMAIN is its key set.          *)
(* Coordinates are whole degrees.  A GPX file's content is the GPX         *)
(* document the code builds (name, description, track segments, waypoint   *)
(* elements); gpxpy's to_xml / parse pair is the external codec.           *)
(*                                                                         *)
(* State.  files is the GPX folder (filename -> content).  metadata_file   *)
(* is the condition of the metadata backing file: "absent", "json" (it     *)
(* holds a JSON object) or "invalid" (opening or decoding it raises).      *)
(* metadata is the JSON object it holds, and the empty dict while there    *)
(* is none.  procs holds, for each client, the call it is in the middle of *)
(* and that call's local variables; it is used by the specification that   *)
(* runs calls statement by statement and stays idle in the one that runs   *)
(* each call as a whole.                                                   *)
(***************************************************************************)
EXTENDS Integers, Sequences, FiniteSets, TLC

VARIABLES files, metadata, metadata_file, now, ops, last, procs

vars == <<files, metadata, metadata_file, now, ops, last, procs>>

-----------------------------------------------------------------------------
(* Bounds of the model *)

\* number of calls in a run that write to the folder or the metadata document
MaxOps == 2
\* largest clock reading, in ticks
MaxTime == 2
\* clock ticks per second: two calls can fall in the same second
TicksPerSecond == 2
\* longest waypoint list drawn from Points when GPXService is called directly
MaxPoints == 3

-----------------------------------------------------------------------------
(* Python values *)

\* None where the code expects a str
None == <<"<None>">>

\* None where the code expects a dict
NoneRec == [none |-> TRUE]

EmptyStr == <<>>

\* characters the model uses, in code point order
AsciiOrder == <<" ", "!", "(", ")", "-", ".", "0", "1", "2", "3", "4", "5",
                "6", "7", "8", "9", ":", "A", "B", "R", "T", "V", "_", "a",
                "b", "c", "d", "e", "f", "g", "i", "n", "o", "p", "r", "s",
                "t", "v", "x">>

Ord(c) == CHOOSE i \in DOMAIN AsciiOrder : AsciiOrder[i] = c

\* str < str
StrLess(a, b) ==
    \E i \in 1..(Len(a) + 1) :
        /\ \A j \in 1..(i - 1) : j <= Len(b) /\ a[j] = b[j]
        /\ \/ i = Len(a) + 1 /\ Len(b) >= i
           \/ i <= Len(a) /\ i <= Len(b) /\ Ord(a[i]) < Ord(b[i])

\* str.startswith
StartsWith(s, p) == Len(p) <= Len(s) /\ SubSeq(s, 1, Len(p)) = p

\* str.endswith
EndsWith(s, p) ==
    Len(p) <= Len(s) /\ SubSeq(s, Len(s) - Len(p) + 1, Len(s)) = p

Whitespace == {" "}

\* str.strip
Strip(s) ==
    LET keep == {i \in 1..Len(s) : s[i] \notin Whitespace}
    IN  IF keep = {} THEN EmptyStr
        ELSE LET lo == CHOOSE i \in keep : \A j \in keep : i <= j
                 hi == CHOOSE i \in keep : \A j \in keep : j <= i
             IN  SubSeq(s, lo, hi)

Digits == {"0", "1", "2", "3", "4", "5", "6", "7", "8", "9"}

Upper == {"A", "B", "R", "T", "V"}

Lower == {"a", "b", "c", "d", "e", "f", "g", "i", "n", "o", "p", "r", "s",
          "t", "v", "x"}

\* str.isalnum on one character
IsAlnum(c) == c \in Digits \cup Upper \cup Lower

\* str.lower on one character
ToLower(c) ==
    CASE c = "A" -> "a" [] c = "B" -> "b" [] c = "R" -> "r"
      [] c = "T" -> "t" [] c = "V" -> "v" [] OTHER -> c

\* "".join(c for c in s if c.isalnum() or c in (' ', '-', '_'))
RECURSIVE KeepSafe(_)
KeepSafe(s) ==
    IF s = <<>> THEN <<>>
    ELSE (IF IsAlnum(Head(s)) \/ Head(s) \in {" ", "-", "_"}
          THEN <<Head(s)>> ELSE <<>>) \o KeepSafe(Tail(s))

\* s[:n]
Prefix(s, n) == SubSeq(s, 1, IF Len(s) < n THEN Len(s) ELSE n)

GpxExt == <<".", "g", "p", "x">>

\* os.path.splitext(filename)[0]: cut at the last dot that follows a
\* character other than a dot
Stem(filename) ==
    LET dots == {i \in 1..Len(filename) :
                    /\ filename[i] = "."
                    /\ \E j \in 1..(i - 1) : filename[j] # "."}
    IN  IF dots = {} THEN filename
        ELSE SubSeq(filename, 1, (CHOOSE i \in dots : \A j \in dots : j <= i) - 1)

-----------------------------------------------------------------------------
(* Clock and timestamp formatting *)

DigitSeq == <<"0", "1", "2", "3", "4", "5", "6", "7", "8", "9">>

\* n as a decimal string of the given width, zero padded
RECURSIVE Decimal(_, _)
Decimal(n, width) ==
    IF width = 0 THEN <<>>
    ELSE Decimal(n \div 10, width - 1) \o <<DigitSeq[(n % 10) + 1]>>

Second(t) == t \div TicksPerSecond

Microsecond(t) == ((t % TicksPerSecond) * 1000000) \div TicksPerSecond

\* datetime.now().strftime("%Y%m%d_%H%M%S"); the clock starts at
\* 2024-01-01 00:00:00 and the model runs for less than a minute
StrfTime(t) ==
    <<"2", "0", "2", "4", "0", "1", "0", "1", "_", "0", "0", "0", "0">>
        \o Decimal(Second(t), 2)

\* datetime.now().isoformat(): the fraction is left out when it is zero
IsoFormat(t) ==
    <<"2", "0", "2", "4", "-", "0", "1", "-", "0", "1", "T", "0", "0", ":",
      "0", "0", ":">> \o Decimal(Second(t), 2)
        \o (IF Microsecond(t) = 0 THEN <<>>
            ELSE <<".">> \o Decimal(Microsecond(t), 6))

\* f"Route created with GPX Editor - {now:%Y-%m-%d %H:%M:%S}"
DefaultDescription(t) ==
    <<"Route created with GPX Editor - ", "2024-01-01 00:00:">>
        \o Decimal(Second(t), 2)

-----------------------------------------------------------------------------
(* GPXService: codec *)

\* a waypoint element for every point, whatever the length of the list
RECURSIVE EmitWaypoints_All(_, _)
EmitWaypoints_All(waypoints, i) ==
    IF i > Len(waypoints) THEN <<>>
    ELSE LET point == waypoints[i]
             point_name == IF Len(point) > 2 THEN point[3]
                           ELSE <<"Point ", ToString(i)>>
         IN  <<[lat |-> point[1], lon |-> point[2], name |-> point_name]>>
                \o EmitWaypoints_All(waypoints, i + 1)

\* the waypoint elements create_gpx_from_waypoints emits
RECURSIVE EmitWaypoints(_, _)
EmitWaypoints(waypoints, i) ==
    IF i > Len(waypoints) THEN <<>>
    ELSE LET point == waypoints[i]
             point_name == IF Len(point) > 2 THEN point[3]
                           ELSE <<"Point ", ToString(i)>>
         IN  (IF i = 1 \/ i = Len(waypoints) \/ Len(waypoints) <= 5
              THEN <<[lat |-> point[1], lon |-> point[2], name |-> point_name]>>
              ELSE <<>>) \o EmitWaypoints(waypoints, i + 1)

\* create_gpx_from_waypoints adding a track point only where it adds a
\* waypoint element
create_gpx_from_waypoints_ThinTrack(waypoints, name, description, t) ==
    [name |-> name,
     description |-> IF description = EmptyStr THEN DefaultDescription(t)
                     ELSE description,
     segments |-> <<[i \in 1..Len(EmitWaypoints(waypoints, 1)) |->
                        <<EmitWaypoints(waypoints, 1)[i].lat,
                          EmitWaypoints(waypoints, 1)[i].lon>>]>>,
     waypoints |-> EmitWaypoints(waypoints, 1)]

\* create_gpx_from_waypoints at clock reading t: the GPX document
create_gpx_from_waypoints(waypoints, name, description, t) ==
    [name |-> name,
     description |-> IF description = EmptyStr THEN DefaultDescription(t)
                     ELSE description,
     segments |-> <<[i \in 1..Len(waypoints) |->
                        <<waypoints[i][1], waypoints[i][2]>>]>>,
     waypoints |-> EmitWaypoints(waypoints, 1)]

\* the non-empty track segments, in document order
RECURSIVE ExtractTracks(_)
ExtractTracks(segments) ==
    IF segments = <<>> THEN <<>>
    ELSE (IF Head(segments) # <<>> THEN <<Head(segments)>> ELSE <<>>)
            \o ExtractTracks(Tail(segments))

\* waypoints synthesized from the tracks when the file declares none
RECURSIVE FallbackWaypoints(_)
FallbackWaypoints(tracks) ==
    IF tracks = <<>> THEN <<>>
    ELSE LET track == Head(tracks)
         IN  (IF Len(track) >= 2
              THEN <<<<track[1][1], track[1][2], <<"Start">>>>,
                     <<track[Len(track)][1], track[Len(track)][2], <<"End">>>>>>
              ELSE <<>>) \o FallbackWaypoints(Tail(tracks))

\* a file gpxpy cannot parse
CorruptGpx == [corrupt |-> TRUE]

\* parse_gpx_file on a file that holds gpx: the parsed data, or None when
\* parsing raises
parse_gpx_file(filename, gpx) ==
    IF gpx = CorruptGpx THEN NoneRec ELSE
    LET tracks == ExtractTracks(gpx.segments)
        declared == [i \in 1..Len(gpx.waypoints) |->
                        <<gpx.waypoints[i].lat, gpx.waypoints[i].lon,
                          IF gpx.waypoints[i].name = EmptyStr
                          THEN <<"Waypoint ", ToString(i)>>
                          ELSE gpx.waypoints[i].name>>]
    IN  [tracks |-> tracks,
         waypoints |-> IF declared = <<>> /\ tracks # <<>>
                       THEN FallbackWaypoints(tracks) ELSE declared,
         name |-> IF gpx.name = EmptyStr THEN Stem(filename) ELSE gpx.name,
         description |-> gpx.description]

-----------------------------------------------------------------------------
(* GPXService: geometry *)

\* _haversine_distance in whole metres, for whole-degree coordinates 0..3:
\* HaversineTable[lat1 + 1][lat2 + 1][|lon2 - lon1| + 1]
HaversineTable ==
    << << <<0, 111195, 222390, 333585>>, <<111195, 157249, 248629, 351613>>,
          <<222390, 248629, 314475, 400863>>, <<333585, 351613, 400863, 471652>> >>,
       << <<111195, 157249, 248629, 351613>>, <<0, 111178, 222356, 333534>>,
          <<111195, 157225, 248569, 351517>>, <<222390, 248607, 314403, 400736>> >>,
       << <<222390, 248629, 314475, 400863>>, <<111195, 157225, 248569, 351517>>,
          <<0, 111127, 222254, 333382>>, <<111195, 157178, 248448, 351324>> >>,
       << <<333585, 351613, 400863, 471652>>, <<222390, 248607, 314403, 400736>>,
          <<111195, 157178, 248448, 351324>>, <<0, 111043, 222085, 333128>> >> >>

Abs(n) == IF n < 0 THEN -n ELSE n

Min(a, b) == IF a < b THEN a ELSE b

Max(a, b) == IF a < b THEN b ELSE a

_haversine_distance(lat1, lon1, lat2, lon2) ==
    HaversineTable[lat1 + 1][lat2 + 1][Abs(lon2 - lon1) + 1]

\* the distance from the first point of the list to its last
TotalDistance_EndToEnd(waypoints, i) ==
    _haversine_distance(waypoints[1][1], waypoints[1][2],
                        waypoints[Len(waypoints)][1], waypoints[Len(waypoints)][2])

RECURSIVE TotalDistance(_, _)
TotalDistance(waypoints, i) ==
    IF i > Len(waypoints) THEN 0
    ELSE _haversine_distance(waypoints[i - 1][1], waypoints[i - 1][2],
                             waypoints[i][1], waypoints[i][2])
            + TotalDistance(waypoints, i + 1)

\* round(metres / 1000, 2), in hundredths of a kilometre (round half to even)
RoundKm(metres) ==
    LET q == metres \div 10
        r == metres % 10
    IN  IF r > 5 \/ (r = 5 /\ q % 2 = 1) THEN q + 1 ELSE q

SetMin(S) == CHOOSE x \in S : \A y \in S : x <= y

SetMax(S) == CHOOSE x \in S : \A y \in S : y <= x

\* calculate_route_stats; distance_km is in hundredths of a kilometre
calculate_route_stats(waypoints) ==
    IF Len(waypoints) < 2
    THEN [distance_km |-> 0, waypoint_count |-> Len(waypoints),
          bounds |-> NoneRec]
    ELSE LET lats == {waypoints[i][1] : i \in 1..Len(waypoints)}
             lons == {waypoints[i][2] : i \in 1..Len(waypoints)}
         IN  [distance_km |-> RoundKm(TotalDistance(waypoints, 2)),
              waypoint_count |-> Len(waypoints),
              bounds |-> [north |-> SetMax(lats), south |-> SetMin(lats),
                          east |-> SetMax(lons), west |-> SetMin(lons)]]

\* min_overlap = 0.6, as the fraction MinOverlapNum / MinOverlapDen
MinOverlapNum == 6

MinOverlapDen == 10

\* get_route_bounds_overlap without the test that the intersection exists
get_route_bounds_overlap_NoEmptyTest(route_bounds, map_bounds) ==
    IF route_bounds = NoneRec \/ map_bounds = NoneRec THEN TRUE
    ELSE LET north == Min(route_bounds.north, map_bounds.north)
             south == Max(route_bounds.south, map_bounds.south)
             east == Min(route_bounds.east, map_bounds.east)
             west == Max(route_bounds.west, map_bounds.west)
             route_area == (route_bounds.north - route_bounds.south)
                            * (route_bounds.east - route_bounds.west)
             intersection_area == (north - south) * (east - west)
         IN  IF route_area <= 0 THEN FALSE
             ELSE intersection_area * MinOverlapDen >= MinOverlapNum * route_area

\* get_route_bounds_overlap
get_route_bounds_overlap(route_bounds, map_bounds) ==
    IF route_bounds = NoneRec \/ map_bounds = NoneRec THEN TRUE
    ELSE LET north == Min(route_bounds.north, map_bounds.north)
             south == Max(route_bounds.south, map_bounds.south)
             east == Min(route_bounds.east, map_bounds.east)
             west == Max(route_bounds.west, map_bounds.west)
             route_area == (route_bounds.north - route_bounds.south)
                            * (route_bounds.east - route_bounds.west)
             intersection_area == (north - south) * (east - west)
         IN  IF north <= south \/ east <= west THEN FALSE
             ELSE IF route_area <= 0 THEN FALSE
             ELSE intersection_area * MinOverlapDen >= MinOverlapNum * route_area

-----------------------------------------------------------------------------
(* RouteService: reads *)

EmptyDict == <<>>

\* _read_metadata returning {} whatever the backing file holds
_read_metadata_Empty(condition, document) == EmptyDict

\* _read_metadata: {} when the backing file is absent, and when open or
\* json.load raises
_read_metadata(condition, document) ==
    IF condition = "absent" THEN EmptyDict
    ELSE IF condition = "invalid" THEN EmptyDict
    ELSE document

\* d.get(key, default)
Get(d, key, default) == IF key \in DOMAIN d THEN d[key] ELSE default

\* d[key] = value
Put(d, key, value) == (key :> value) @@ d

\* del d[key]
Del(d, key) == [k \in DOMAIN d \ {key} |-> d[k]]

\* sorted(S) for a set of str
RECURSIVE Sorted(_)
Sorted(S) ==
    IF S = {} THEN <<>>
    ELSE LET least == CHOOSE x \in S : \A y \in S \ {x} : StrLess(x, y)
         IN  <<least>> \o Sorted(S \ {least})

\* sorted(S, reverse=True)
Reversed(s) == [i \in 1..Len(s) |-> s[Len(s) + 1 - i]]

VersionInfix == <<"_", "v", "_">>

\* _get_version_files
_get_version_files(dir, filename) ==
    LET version_pattern == Stem(filename) \o VersionInfix
    IN  {f \in DOMAIN dir : StartsWith(f, version_pattern) /\ EndsWith(f, GpxExt)}

\* get_route_versions
get_route_versions(dir, md, filename) ==
    LET version_files == Reversed(Sorted(_get_version_files(dir, filename)))
    IN  [i \in 1..Len(version_files) |->
            LET meta == Get(md, version_files[i], EmptyDict)
            IN  [filename |-> version_files[i],
                 name |-> Get(meta, "name", version_files[i]),
                 created_at |-> Get(meta, "created_at", None),
                 description |-> Get(meta, "description", EmptyStr)]]

\* the route dict with the filename, extension included, as the default name
RouteView_FilenameAsName(md, filename, gpx_data) ==
    LET meta == Get(md, filename, EmptyDict)
    IN  [filename |-> filename,
         name |-> Get(meta, "name", filename),
         description |-> Get(meta, "description", EmptyStr),
         is_favorite |-> Get(meta, "is_favorite", FALSE),
         created_at |-> Get(meta, "created_at", None),
         modified_at |-> Get(meta, "modified_at", None),
         route_type |-> Get(meta, "route_type", "cycling"),
         tracks |-> gpx_data.tracks,
         waypoints |-> gpx_data.waypoints,
         stats |-> calculate_route_stats(gpx_data.waypoints)]

\* the route dict get_routes and get_route assemble, without its last key
RouteView(md, filename, gpx_data) ==
    LET meta == Get(md, filename, EmptyDict)
    IN  [filename |-> filename,
         name |-> Get(meta, "name", Stem(filename)),
         description |-> Get(meta, "description", EmptyStr),
         is_favorite |-> Get(meta, "is_favorite", FALSE),
         created_at |-> Get(meta, "created_at", None),
         modified_at |-> Get(meta, "modified_at", None),
         route_type |-> Get(meta, "route_type", "cycling"),
         tracks |-> gpx_data.tracks,
         waypoints |-> gpx_data.waypoints,
         stats |-> calculate_route_stats(gpx_data.waypoints)]

\* the sort key with the favorite flag not negated
SortKey_FavoritesLast(r) == <<r.is_favorite, r.modified_at, r.name>>

\* the sort key of get_routes
SortKey(r) == <<~r.is_favorite, r.modified_at, r.name>>

\* key1 < key2 raises TypeError: the tuples first differ where one holds
\* None and the other a str
KeyUnorderable(k1, k2) ==
    k1[1] = k2[1] /\ k1[2] # k2[2] /\ (k1[2] = None \/ k2[2] = None)

\* key1 < key2, for keys Python can order
KeyLess(k1, k2) ==
    \/ ~k1[1] /\ k2[1]
    \/ k1[1] = k2[1] /\ k1[2] # k2[2] /\ StrLess(k1[2], k2[2])
    \/ k1[1] = k2[1] /\ k1[2] = k2[2] /\ StrLess(k1[3], k2[3])

\* list.sort(key=SortKey) of routes whose keys Python can order: stable
\* insertion of each route after the routes that are not greater
RECURSIVE SortRoutes(_)
SortRoutes(routes) ==
    IF routes = <<>> THEN <<>>
    ELSE LET done == SortRoutes(SubSeq(routes, 1, Len(routes) - 1))
             r == routes[Len(routes)]
             before == {i \in 1..Len(done) : ~KeyLess(SortKey(r), SortKey(done[i]))}
             n == IF before = {} THEN 0 ELSE SetMax(before)
         IN  SubSeq(done, 1, n) \o <<r>> \o SubSeq(done, n + 1, Len(done))

\* the routes get_routes appends, in the order of sorted(gpx_files)
RECURSIVE CollectRoutes(_, _, _, _)
CollectRoutes(dir, md, filenames, bounds) ==
    IF filenames = <<>> THEN <<>>
    ELSE LET filename == Head(filenames)
             gpx_data == parse_gpx_file(filename, dir[filename])
             rest == CollectRoutes(dir, md, Tail(filenames), bounds)
         IN  IF gpx_data = NoneRec THEN rest
             ELSE LET view == RouteView(md, filename, gpx_data)
                  IN  IF /\ bounds # NoneRec
                         /\ view.stats.bounds # NoneRec
                         /\ ~get_route_bounds_overlap(view.stats.bounds, bounds)
                      THEN rest
                      ELSE <<view @@ [version_count |->
                                Len(get_route_versions(dir, md, filename))]>>
                           \o rest

\* get_routes: the sorted list, or the TypeError list.sort raises
get_routes(dir, md, bounds) ==
    LET gpx_files == {f \in DOMAIN dir : EndsWith(f, GpxExt) /\ ~StartsWith(f, <<".">>)}
        routes == CollectRoutes(dir, md, Sorted(gpx_files), bounds)
    IN  IF \E i, j \in 1..Len(routes) :
                KeyUnorderable(SortKey(routes[i]), SortKey(routes[j]))
        THEN [kind |-> "TypeError"]
        ELSE [kind |-> "list", routes |-> SortRoutes(routes)]

\* os.path.exists answering yes for every filename
Exists_Always(dir, filename) == TRUE

\* os.path.exists(os.path.join(gpx_folder, filename))
Exists(dir, filename) == filename \in DOMAIN dir

\* get_route answering from the metadata record when the file is absent
get_route_FromMetadata(dir, md, filename) ==
    IF ~Exists(dir, filename)
    THEN IF filename \notin DOMAIN md THEN [kind |-> "None"]
         ELSE [kind |-> "route",
               route |-> RouteView(md, filename, [tracks |-> <<>>, waypoints |-> <<>>]) @@
                         [versions |-> get_route_versions(dir, md, filename)]]
    ELSE LET gpx_data == parse_gpx_file(filename, dir[filename])
         IN  IF gpx_data = NoneRec THEN [kind |-> "None"]
             ELSE [kind |-> "route",
                   route |-> RouteView(md, filename, gpx_data) @@
                             [versions |-> get_route_versions(dir, md, filename)]]

\* get_route
get_route(dir, md, filename) ==
    IF ~Exists(dir, filename) THEN [kind |-> "None"]
    ELSE LET gpx_data == parse_gpx_file(filename, dir[filename])
         IN  IF gpx_data = NoneRec THEN [kind |-> "None"]
             ELSE [kind |-> "route",
                   route |-> RouteView(md, filename, gpx_data) @@
                             [versions |-> get_route_versions(dir, md, filename)]]

-----------------------------------------------------------------------------
(* RouteService: mutations.  Each operator gives the directory, the        *)
(* metadata document and the result the call leaves behind, for a call     *)
(* that reads the clock at t.                                              *)

Outcome(dir, md, result) == [files |-> dir, metadata |-> md, result |-> result]

ValueError(message) == [kind |-> "ValueError", message |-> message]

\* safe_name.replace(' ', '_').lower()
ReplaceLower(s) ==
    [i \in 1..Len(s) |-> IF s[i] = " " THEN "_" ELSE ToLower(s[i])]

SafeNameLimit == 30

\* the filename create_route generates from name and uuid4().hex[:8]
GenerateFilename(name, hex) ==
    LET safe_name == Prefix(ReplaceLower(KeepSafe(Strip(name))), SafeNameLimit)
    IN  safe_name \o <<"_">> \o hex \o GpxExt

\* the metadata record create_route writes
NewRecord(name, route_type, description, t) ==
    [name |-> name, description |-> description, route_type |-> route_type,
     is_favorite |-> FALSE, created_at |-> IsoFormat(t),
     modified_at |-> IsoFormat(t), created_by |-> "GPX Route Editor"]

\* not name.strip(), with the strip left out
NameIsBlank_NoStrip(name) == name = EmptyStr

\* not name.strip()
NameIsBlank(name) == Strip(name) = EmptyStr

\* create_route
create_route(dir, md, name, waypoints, route_type, description, hex, t) ==
    IF Len(waypoints) < 2
    THEN Outcome(dir, md, ValueError("Route must have at least 2 waypoints"))
    ELSE IF NameIsBlank(name)
    THEN Outcome(dir, md, ValueError("Route name cannot be empty"))
    ELSE LET filename == GenerateFilename(name, hex)
             dir2 == Put(dir, filename,
                         create_gpx_from_waypoints(waypoints, name, description, t))
             md2 == Put(md, filename, NewRecord(name, route_type, description, t))
         IN  Outcome(dir2, md2, get_route(dir2, md2, filename))

\* update_route building the record anew from its arguments
PatchRecord_Replace(meta, name, description, t) ==
    [name |-> IF name # None THEN name ELSE Get(meta, "name", EmptyStr),
     description |-> IF description # None THEN description
                     ELSE Get(meta, "description", EmptyStr),
     modified_at |-> IsoFormat(t)]

\* update_route stamping created_at as well
PatchRecord_Restamp(meta, name, description, t) ==
    LET m1 == IF name # None THEN Put(meta, "name", name) ELSE meta
        m2 == IF description # None THEN Put(m1, "description", description) ELSE m1
    IN  Put(Put(m2, "modified_at", IsoFormat(t)), "created_at", IsoFormat(t))

\* the record update_route writes back: only the supplied fields are set
PatchRecord(meta, name, description, t) ==
    LET m1 == IF name # None THEN Put(meta, "name", name) ELSE meta
        m2 == IF description # None THEN Put(m1, "description", description) ELSE m1
    IN  Put(m2, "modified_at", IsoFormat(t))

\* update_route
update_route(dir, md, filename, waypoints, name, description, t) ==
    IF ~Exists(dir, filename)
    THEN Outcome(dir, md, [kind |-> "None"])
    ELSE IF Len(waypoints) < 2
    THEN Outcome(dir, md, ValueError("Route must have at least 2 waypoints"))
    ELSE LET meta == PatchRecord(Get(md, filename, EmptyDict), name, description, t)
             route_name == Get(meta, "name", Stem(filename))
             route_description == Get(meta, "description", EmptyStr)
             dir2 == Put(dir, filename,
                         create_gpx_from_waypoints(waypoints, route_name,
                                                   route_description, t))
             md2 == Put(md, filename, meta)
         IN  Outcome(dir2, md2, get_route(dir2, md2, filename))

\* the files delete_route removes along with filename
CascadeFiles(dir, filename) == _get_version_files(dir, filename)

\* the metadata document delete_route leaves
PruneMetadata(md, filename) ==
    IF filename \in DOMAIN md THEN Del(md, filename) ELSE md

\* delete_route
delete_route(dir, md, filename) ==
    IF ~Exists(dir, filename)
    THEN Outcome(dir, md, [kind |-> "bool", value |-> FALSE])
    ELSE LET dir2 == Del(dir, filename)
             md2 == PruneMetadata(md, filename)
             dir3 == [f \in DOMAIN dir2 \ CascadeFiles(dir2, filename) |-> dir2[f]]
         IN  Outcome(dir3, md2, [kind |-> "bool", value |-> TRUE])

\* toggle_favorite setting the flag instead of flipping it
ToggleRecord_Set(meta, t) ==
    Put(Put(meta, "is_favorite", TRUE), "modified_at", IsoFormat(t))

\* the record toggle_favorite writes back
ToggleRecord(meta, t) ==
    LET current_status == Get(meta, "is_favorite", FALSE)
    IN  Put(Put(meta, "is_favorite", ~current_status), "modified_at", IsoFormat(t))

\* toggle_favorite
toggle_favorite(dir, md, filename, t) ==
    IF ~Exists(dir, filename)
    THEN Outcome(dir, md, [kind |-> "None"])
    ELSE LET meta == IF filename \in DOMAIN md THEN md[filename]
                     ELSE [name |-> Stem(filename)]
             md2 == Put(md, filename, ToggleRecord(meta, t))
         IN  Outcome(dir, md2,
                     [kind |-> "favorite", filename |-> filename,
                      is_favorite |-> ~Get(meta, "is_favorite", FALSE)])

\* the filename create_version_backup gives the snapshot
VersionFilename(filename, t) ==
    Stem(filename) \o VersionInfix \o StrfTime(t) \o GpxExt

\* f"{route_data['name']} (Version {timestamp})"
VersionName(name, t) ==
    name \o <<" ", "(", "V", "e", "r", "s", "i", "o", "n", " ">>
         \o StrfTime(t) \o <<")">>

\* create_version_backup
create_version_backup(dir, md, filename, route_data, t) ==
    LET version_filename == VersionFilename(filename, t)
        dir2 == Put(dir, version_filename,
                    create_gpx_from_waypoints(route_data.waypoints,
                                              VersionName(route_data.name, t),
                                              route_data.description, t))
        md2 == Put(md, version_filename,
                   [name |-> VersionName(route_data.name, t),
                    description |-> <<"Backup version created on ">> \o StrfTime(t),
                    route_type |-> route_data.route_type,
                    is_favorite |-> FALSE,
                    is_version |-> TRUE,
                    original_file |-> filename,
                    created_at |-> IsoFormat(t)])
    IN  Outcome(dir2, md2, [kind |-> "filename", filename |-> version_filename])

-----------------------------------------------------------------------------
(* Inputs *)

\* uuid.uuid4().hex[:8]
HexSuffixes == {<<"0", "0", "0", "0", "0", "0", "0", "a">>}

\* a single point, a pair on one latitude (the second labelled), and a
\* wide diagonal pair
OnePoint == <<<<1, 1>>>>

FlatPair == <<<<1, 1>>, <<1, 2, <<"B">>>>>>

WidePair == <<<<0, 0>>, <<3, 3>>>>

\* six points, one more than the encoder emits waypoint elements for
LongRoute == <<<<0, 0>>, <<0, 1>>, <<1, 1>>, <<2, 1>>, <<2, 2>>, <<3, 3>>>>


\* a create call with the optional arguments left out
Request(name, waypoints) ==
    [name |-> name, waypoints |-> waypoints, route_type |-> "cycling",
     description |-> EmptyStr]

\* create calls: the empty and the blank name with two waypoints, the plain
\* name with no and with one waypoint, the empty name with one waypoint,
\* the name that needs cleaning with the flat pair, the plain name with the
\* wide pair, and the plain name with the long route and the optional
\* arguments supplied
CreateRequests ==
    {Request(EmptyStr, WidePair),
     Request(<<" ">>, WidePair),
     Request(<<"r">>, <<>>),
     Request(<<"r">>, OnePoint),
     Request(EmptyStr, OnePoint),
     Request(<<" ", "B", " ", "v", "!">>, FlatPair),
     Request(<<"r">>, WidePair),
     [name |-> <<"r">>, waypoints |-> LongRoute, route_type |-> "hiking",
      description |-> <<"d">>]}

\* update calls: one waypoint, and the long route with nothing, with the
\* name and with the description supplied (None when left out)
UpdateRequests ==
    {[waypoints |-> OnePoint, name |-> None, description |-> None],
     [waypoints |-> LongRoute, name |-> None, description |-> None],
     [waypoints |-> LongRoute, name |-> <<"n">>, description |-> None],
     [waypoints |-> LongRoute, name |-> None, description |-> <<"e">>]}

\* query boxes of list: none, one around every route, one beside every
\* route, and two that cut the wide route
QueryBoxes ==
    {NoneRec,
     [north |-> 4, south |-> -1, east |-> 4, west |-> -1],
     [north |-> 5, south |-> 4, east |-> 5, west |-> 4],
     [north |-> 3, south |-> 0, east |-> 2, west |-> 0],
     [north |-> 1, south |-> 0, east |-> 3, west |-> 0]}

\* a file the scraper or the user put into the folder: a track, no waypoint
\* elements, no metadata record
LegacyFile == <<"b", ".", "g", "p", "x">>

LegacyGpx ==
    [name |-> EmptyStr, description |-> EmptyStr,
     segments |-> <<<<<<0, 0>>, <<0, 1>>, <<2, 1>>>>>>,
     waypoints |-> <<>>]

\* another such file, recorded elsewhere
OtherFile == <<"a", ".", "g", "p", "x">>

OtherGpx ==
    [name |-> EmptyStr, description |-> EmptyStr,
     segments |-> <<<<<<1, 0>>, <<1, 1>>, <<2, 2>>>>>>,
     waypoints |-> <<>>]

\* a file in the folder that gpxpy cannot parse
BrokenFile == <<"c", ".", "g", "p", "x">>

\* a filename no file ever has
MissingFile == <<"x", ".", "g", "p", "x">>

\* the filenames a client asks for: those of the folder, those the
\* metadata document still names, and one that never existed
Targets == DOMAIN files \cup DOMAIN metadata \cup {MissingFile}

\* the clients
Procs == {"p1", "p2"}

\* a client between calls
Idle == [pc |-> "idle"]

-----------------------------------------------------------------------------
(* State machine.  last records the latest call that wrote: its            *)
(* arguments, the clock reading, the storage before it and its result.     *)
(* A read (get_routes, get_route, get_route_versions) and a rejected call  *)
(* change nothing: what they return is a function of their arguments,      *)
(* files and metadata.                                                     *)

NoToggle == [some |-> FALSE]

Call(op, filename, request, out, prev) ==
    [op |-> op, filename |-> filename, request |-> request, t |-> now,
     pre_files |-> files, pre_metadata |-> metadata,
     result |-> out.result, prev_toggle |-> prev]

\* the folders the service starts on: empty, holding a legacy file and a
\* file that cannot be parsed, and holding two legacy files
InitialFolders ==
    {EmptyDict,
     (LegacyFile :> LegacyGpx) @@ (BrokenFile :> CorruptGpx),
     (LegacyFile :> LegacyGpx) @@ (OtherFile :> OtherGpx)}

Init ==
    /\ files \in InitialFolders
    /\ metadata = EmptyDict
    /\ metadata_file \in {"absent", "json", "invalid"}
    /\ now = 0
    /\ ops = 0
    /\ last = [op |-> "init"]
    /\ procs = [p \in Procs |-> Idle]

\* a call that finds nothing to do or refuses its arguments
Rejected(result) ==
    \/ result.kind \in {"None", "ValueError"}
    \/ result = [kind |-> "bool", value |-> FALSE]

\* the condition of the backing file after a call that read document and
\* left written: _write_metadata leaves a JSON object; a call that writes
\* always adds or removes a key
AfterWrite(condition, document, written) ==
    IF written = document THEN condition ELSE "json"

\* a mutating call: a rejected call leaves the whole state as it is
Mutate(op, filename, request, out, prev) ==
    IF Rejected(out.result)
    THEN out.files = files /\ out.metadata = metadata /\ UNCHANGED vars
    ELSE /\ ops < MaxOps
         /\ files' = out.files
         /\ metadata' = out.metadata
         /\ metadata_file' = AfterWrite(metadata_file, metadata, out.metadata)
         /\ ops' = ops + 1
         /\ last' = Call(op, filename, request, out, prev)
         /\ UNCHANGED <<now, procs>>

\* a read leaves the whole state as it is
Observe(result) ==
    /\ result.kind \in {"list", "TypeError", "route", "None", "versions"}
    /\ UNCHANGED vars

\* time passes between calls; once the last call of the run is made the
\* clock reading is of no further use
Tick ==
    /\ now < MaxTime
    /\ ops < MaxOps
    /\ now' = now + 1
    /\ UNCHANGED <<files, metadata, metadata_file, ops, last, procs>>

\* what a call gets from self._read_metadata()
ReadMetadata == _read_metadata(metadata_file, metadata)

Create ==
    \E req \in CreateRequests, hex \in HexSuffixes :
        Mutate("create", EmptyStr,
               [name |-> req.name, waypoints |-> req.waypoints],
               create_route(files, ReadMetadata, req.name, req.waypoints,
                            req.route_type, req.description, hex, now),
               NoToggle)

Update ==
    \E filename \in Targets, req \in UpdateRequests :
        Mutate("update", filename, req,
               update_route(files, ReadMetadata, filename, req.waypoints,
                            req.name, req.description, now),
               NoToggle)

Delete ==
    \E filename \in Targets :
        Mutate("delete", filename, EmptyDict,
               delete_route(files, ReadMetadata, filename), NoToggle)

\* what a toggle_favorite call records about the call before it, when that
\* was a toggle_favorite of the same file that returned a result
PrevToggle(filename) ==
    IF /\ last.op = "toggle_favorite"
       /\ last.filename = filename
       /\ last.result.kind = "favorite"
    THEN [some |-> TRUE,
          original |-> Get(Get(last.pre_metadata, filename, EmptyDict),
                           "is_favorite", FALSE),
          returned |-> last.result.is_favorite,
          t |-> last.t,
          modified_at |-> metadata[filename].modified_at]
    ELSE NoToggle

ToggleFavorite ==
    \E filename \in Targets :
        Mutate("toggle_favorite", filename, EmptyDict,
               toggle_favorite(files, ReadMetadata, filename, now),
               PrevToggle(filename))

\* the caller passes the route as get_route returns it
SnapshotVersion ==
    \E filename \in DOMAIN files :
        LET current == get_route(files, ReadMetadata, filename)
        IN  /\ current.kind = "route"
            /\ Mutate("create_version_backup", filename,
                      [name |-> current.route.name,
                       waypoints |-> current.route.waypoints,
                       description |-> current.route.description],
                      create_version_backup(files, ReadMetadata, filename,
                                            current.route, now),
                      NoToggle)

List ==
    \E bounds \in QueryBoxes : Observe(get_routes(files, ReadMetadata, bounds))

GetRoute ==
    \E filename \in Targets : Observe(get_route(files, ReadMetadata, filename))

ListVersions ==
    \E filename \in Targets :
        Observe([kind |-> "versions",
                 versions |->
                     get_route_versions(files, ReadMetadata, filename)])

Next ==
    \/ Tick
    \/ Create
    \/ Update
    \/ Delete
    \/ ToggleFavorite
    \/ SnapshotVersion
    \/ List
    \/ GetRoute
    \/ ListVersions

Spec == Init /\ [][Next]_vars

-----------------------------------------------------------------------------
(* GPXService called directly: encode and save, decode, statistics.  A run *)
(* starts from the arguments of one call or from one file of another tool; *)
(* last records the latest call, its arguments and what it returned.       *)

\* the file the calls save and parse
SavedFile == <<"r", ".", "g", "p", "x">>

\* points of waypoint lists: two bare ones and a labelled one
Points == {<<0, 0>>, <<1, 2>>, <<3, 1, <<"B">>>>}

\* the lists of exactly n points
RECURSIVE ListsOfLen(_, _)
ListsOfLen(S, n) ==
    IF n = 0 THEN {<<>>}
    ELSE {Append(l, x) : l \in ListsOfLen(S, n - 1), x \in S}

\* waypoint lists handed to the encoder and to calculate_route_stats
WaypointLists ==
    UNION {ListsOfLen(Points, n) : n \in 0..MaxPoints} \cup {LongRoute}

\* a GPX document of another tool: no waypoint elements, the given track
\* segments
Foreign(segments) ==
    [name |-> EmptyStr, description |-> EmptyStr, segments |-> segments,
     waypoints |-> <<>>]

\* files of other tools: without geometry, with one track of one, two and
\* three points, with an empty segment, with two tracks, with a declared
\* waypoint that has no name, and one that cannot be parsed
ForeignFiles ==
    {Foreign(<<>>),
     Foreign(<<<<<<0, 0>>>>>>),
     Foreign(<<<<<<0, 0>>, <<1, 2>>>>>>),
     LegacyGpx,
     Foreign(<<<<>>, <<<<0, 0>>, <<1, 2>>, <<3, 1>>>>>>),
     Foreign(<<<<<<0, 0>>, <<1, 2>>>>, <<<<3, 1>>, <<3, 3>>>>>>),
     Foreign(<<<<<<0, 0>>, <<1, 2>>>>, <<<<3, 1>>>>>>),
     [name |-> <<"n">>, description |-> <<"d">>,
      segments |-> <<<<<<0, 0>>, <<1, 2>>>>>>,
      waypoints |-> <<[lat |-> 1, lon |-> 2, name |-> EmptyStr]>>],
     CorruptGpx}

\* a call about to be made with a waypoint list, or a file of another
\* tool in the folder
InitGpx ==
    /\ \/ /\ files = EmptyDict
          /\ last \in {[op |-> "given", waypoints |-> w, description |-> d] :
                           w \in WaypointLists, d \in {EmptyStr, <<"d">>}}
       \/ /\ files \in {SavedFile :> gpx : gpx \in ForeignFiles}
          /\ last = [op |-> "placed"]
    /\ metadata = EmptyDict
    /\ metadata_file = "absent"
    /\ now = 0
    /\ ops = 0
    /\ procs = [p \in Procs |-> Idle]

\* create_gpx_from_waypoints followed by save_gpx_file
Encode ==
    /\ last.op = "given"
    /\ files' = Put(files, SavedFile,
                    create_gpx_from_waypoints(last.waypoints, <<"r">>,
                                              last.description, now))
    /\ last' = [op |-> "encode", waypoints |-> last.waypoints,
                description |-> last.description, t |-> now]
    /\ UNCHANGED <<metadata, metadata_file, now, ops, procs>>

\* parse_gpx_file of the file just written
Decode ==
    /\ last.op \in {"encode", "placed"}
    /\ last' = [op |-> "decode", source |-> last,
                gpx_data |-> parse_gpx_file(SavedFile, files[SavedFile])]
    /\ UNCHANGED <<files, metadata, metadata_file, now, ops, procs>>

\* calculate_route_stats
Stats ==
    /\ last.op = "given"
    /\ last' = [op |-> "stats", waypoints |-> last.waypoints,
                stats |-> calculate_route_stats(last.waypoints),
                appended |-> FALSE]
    /\ UNCHANGED <<files, metadata, metadata_file, now, ops, procs>>

\* calculate_route_stats of the list of the call before with one more point
StatsAppended ==
    /\ last.op = "stats"
    /\ Len(last.waypoints) <= MaxPoints
    /\ \E point \in Points :
          LET waypoints == Append(last.waypoints, point)
          IN  last' = [op |-> "stats", waypoints |-> waypoints,
                       stats |-> calculate_route_stats(waypoints),
                       appended |-> TRUE, shorter |-> last.stats]
    /\ UNCHANGED <<files, metadata, metadata_file, now, ops, procs>>

NextGpx ==
    \/ Tick
    \/ Encode
    \/ Decode
    \/ Stats
    \/ StatsAppended

SpecGpx == InitGpx /\ [][NextGpx]_vars

-----------------------------------------------------------------------------
(* RouteService with two clients whose calls run statement by statement:   *)
(* toggle_favorite and create_route, each as the existence test or the     *)
(* validation and the save of the file, then self._read_metadata(), then   *)
(* the change of the local dict and self._write_metadata(), then the       *)
(* return.  _write_metadata can raise IOError, before it has touched the   *)
(* backing file or after open(.., 'w') has emptied it.  Every client makes *)
(* one call.                                                               *)

\* uuid.uuid4().hex[:8] as two clients can draw it
StepHexes ==
    {<<"0", "0", "0", "0", "0", "0", "0", "a">>,
     <<"0", "0", "0", "0", "0", "0", "0", "b">>}

\* create calls of a client: one that is refused and one that is accepted
StepRequests == {Request(<<"r">>, OnePoint), Request(<<"r">>, WidePair)}

\* a call that ended: what it returned or raised
Ended(op, filename, result) ==
    [pc |-> "done", op |-> op, filename |-> filename, result |-> result,
     stale |-> FALSE, write_failed |-> FALSE]

\* the except clause of _write_metadata swallowing the IOError, so that the
\* call goes on to its return statement
Raise_Swallowed(call) ==
    [call EXCEPT !.pc = "return"] @@ [write_failed |-> TRUE]

\* the raise of _write_metadata, which no caller catches: the call ends
\* with the IOError
Raise(call) ==
    [call EXCEPT !.pc = "done"] @@
    [write_failed |-> TRUE, result |-> [kind |-> "IOError"]]

InitSteps ==
    /\ files = (LegacyFile :> LegacyGpx) @@ (BrokenFile :> CorruptGpx)
    /\ metadata = EmptyDict
    /\ metadata_file \in {"absent", "json", "invalid"}
    /\ now = 0
    /\ ops = 0
    /\ last = [op |-> "init"]
    /\ procs = [p \in Procs |-> Idle]

\* toggle_favorite, up to its existence test
StartToggle(p) ==
    /\ procs[p] = Idle
    /\ \E filename \in Targets :
          procs' = [procs EXCEPT ![p] =
                      IF Exists(files, filename)
                      THEN [pc |-> "read", op |-> "toggle_favorite",
                            filename |-> filename]
                      ELSE Ended("toggle_favorite", filename, [kind |-> "None"])]
    /\ UNCHANGED <<files, metadata, metadata_file, now, ops, last>>

\* create_route, up to save_gpx_file
StartCreate(p) ==
    /\ procs[p] = Idle
    /\ \E req \in StepRequests, hex \in StepHexes :
          LET filename == GenerateFilename(req.name, hex)
          IN  IF Len(req.waypoints) < 2
              THEN /\ procs' = [procs EXCEPT ![p] =
                                  Ended("create", EmptyStr,
                                        ValueError("Route must have at least 2 waypoints"))]
                   /\ UNCHANGED files
              ELSE IF NameIsBlank(req.name)
              THEN /\ procs' = [procs EXCEPT ![p] =
                                  Ended("create", EmptyStr,
                                        ValueError("Route name cannot be empty"))]
                   /\ UNCHANGED files
              ELSE /\ files' = Put(files, filename,
                                   create_gpx_from_waypoints(req.waypoints, req.name,
                                                             req.description, now))
                   /\ procs' = [procs EXCEPT ![p] =
                                  [pc |-> "read", op |-> "create",
                                   filename |-> filename, request |-> req,
                                   fresh |-> /\ filename \notin DOMAIN files
                                             /\ filename \notin DOMAIN ReadMetadata]]
    /\ UNCHANGED <<metadata, metadata_file, now, ops, last>>

\* metadata = self._read_metadata()
ReadStep(p) ==
    /\ procs[p].pc = "read"
    /\ procs' = [procs EXCEPT ![p] =
                    [procs[p] EXCEPT !.pc = "write"] @@
                    [metadata |-> ReadMetadata, stale |-> FALSE]]
    /\ UNCHANGED <<files, metadata, metadata_file, now, ops, last>>

\* the dict a call hands to self._write_metadata
LocalDocument(call, t) ==
    IF call.op = "toggle_favorite"
    THEN Put(call.metadata, call.filename,
             ToggleRecord(IF call.filename \in DOMAIN call.metadata
                          THEN call.metadata[call.filename]
                          ELSE [name |-> Stem(call.filename)], t))
    ELSE Put(call.metadata, call.filename,
             NewRecord(call.request.name, call.request.route_type,
                       call.request.description, t))

\* self._write_metadata(metadata) writes the whole dict
WriteStep(p) ==
    /\ procs[p].pc = "write"
    /\ LET document == LocalDocument(procs[p], now)
       IN  /\ metadata' = document
           /\ metadata_file' = "json"
           /\ procs' = [q \in Procs |->
                          IF q = p
                          THEN [procs[p] EXCEPT !.pc = "return"] @@
                               [written |-> document[procs[p].filename],
                                write_failed |-> FALSE]
                          ELSE IF procs[q].pc = "write"
                          THEN [procs[q] EXCEPT !.stale = TRUE]
                          ELSE procs[q]]
    /\ UNCHANGED <<files, now, ops, last>>

\* self._write_metadata(metadata) raises IOError: the backing file is as it
\* was, or open(.., 'w') has emptied it
WriteFails(p) ==
    /\ procs[p].pc = "write"
    /\ \E emptied \in BOOLEAN :
          /\ metadata' = IF emptied THEN EmptyDict ELSE metadata
          /\ metadata_file' = IF emptied THEN "invalid" ELSE metadata_file
    /\ procs' = [procs EXCEPT ![p] = Raise(procs[p])]
    /\ UNCHANGED <<files, now, ops, last>>

\* the return statement
ReturnStep(p) ==
    /\ procs[p].pc = "return"
    /\ procs' = [procs EXCEPT ![p] =
                    [procs[p] EXCEPT !.pc = "done"] @@
                    [result |->
                        IF procs[p].op = "toggle_favorite"
                        THEN [kind |-> "favorite", filename |-> procs[p].filename,
                              is_favorite |-> ~Get(Get(procs[p].metadata,
                                                       procs[p].filename, EmptyDict),
                                                   "is_favorite", FALSE)]
                        ELSE get_route(files, ReadMetadata, procs[p].filename)]]
    /\ UNCHANGED <<files, metadata, metadata_file, now, ops, last>>

NextSteps ==
    \/ Tick
    \/ \E p \in Procs : StartToggle(p)
    \/ \E p \in Procs : StartCreate(p)
    \/ \E p \in Procs : ReadStep(p)
    \/ \E p \in Procs : WriteStep(p)
    \/ \E p \in Procs : WriteFails(p)
    \/ \E p \in Procs : ReturnStep(p)

SpecSteps == InitSteps /\ [][NextSteps]_vars

-----------------------------------------------------------------------------
(* Vocabulary of the properties *)

\* the metadata record of filename in md, or the empty dict
RecordOf(md, filename) == Get(md, filename, EmptyDict)

\* filename is a version snapshot according to md
IsSnapshot(md, filename) == Get(RecordOf(md, filename), "is_version", FALSE)

\* the version snapshots md records for the original route filename
SnapshotsOf(md, filename) ==
    {v \in DOMAIN md : IsSnapshot(md, v) /\ md[v].original_file = filename}

\* the filenames of a list of routes
FilenamesOf(routes) == {routes[i].filename : i \in 1..Len(routes)}

\* the fields of two records other than those in keys agree
SameExcept(rec1, rec2, keys) ==
    /\ DOMAIN rec1 \ keys = DOMAIN rec2 \ keys
    /\ \A k \in DOMAIN rec1 \ keys : rec1[k] = rec2[k]

\* two dicts agree on every key but filename
SameElsewhere(d1, d2, filename) ==
    /\ DOMAIN d1 \ {filename} = DOMAIN d2 \ {filename}
    /\ \A k \in DOMAIN d1 \ {filename} : d1[k] = d2[k]

-----------------------------------------------------------------------------
(* C1 *)

\* C1 (as claimed): after a successful delete(f) of a route that had version
\* snapshots, neither f nor any snapshot whose original_file is f has a GPX
\* file or a metadata entry left.
C1_DeleteCascades ==
    (last.op = "delete" /\ SnapshotsOf(last.pre_metadata, last.filename) # {})
        => \A g \in {last.filename} \cup SnapshotsOf(last.pre_metadata, last.filename) :
              g \notin DOMAIN files /\ g \notin DOMAIN metadata

-----------------------------------------------------------------------------
(* C2 *)

\* C2 (as claimed): in every reachable state no version snapshot is an
\* element of what list() returns.
C2_ListHasNoSnapshot ==
    LET listed == get_routes(files, metadata, NoneRec)
    IN  listed.kind = "list"
            => \A f \in FilenamesOf(listed.routes) : ~IsSnapshot(metadata, f)

-----------------------------------------------------------------------------
(* C3 *)

\* C3: in every reachable state, a create call whose waypoints are fewer
\* than 2 or whose name trims to empty is answered with a validation
\* failure and leaves the folder and the metadata document as they are.
C3_CreateRejects ==
    \A req \in CreateRequests, hex \in HexSuffixes :
        (Len(req.waypoints) < 2 \/ Strip(req.name) = EmptyStr)
            => LET out == create_route(files, metadata, req.name, req.waypoints,
                                       req.route_type, req.description, hex, now)
               IN  /\ out.result.kind = "ValueError"
                   /\ out.files = files
                   /\ out.metadata = metadata

\* a state with routes stored in which create refuses a blank name that
\* comes with two waypoints, and a name that comes with one waypoint
C3_Witness ==
    /\ DOMAIN files # {}
    /\ DOMAIN metadata # {}
    /\ create_route(files, metadata, <<" ">>, WidePair, "cycling", EmptyStr,
                    CHOOSE hex \in HexSuffixes : TRUE, now).result
          = ValueError("Route name cannot be empty")
    /\ create_route(files, metadata, <<"r">>, OnePoint, "cycling", EmptyStr,
                    CHOOSE hex \in HexSuffixes : TRUE, now).result
          = ValueError("Route must have at least 2 waypoints")

-----------------------------------------------------------------------------
(* C4 *)

-----------------------------------------------------------------------------
(* C5 *)

NotFound == [kind |-> "None"]

\* C5: in every reachable state, update, toggleFavorite and delete of a
\* filename that has no GPX file return not found (None, None, False) and
\* leave the folder and the metadata document as they are, whether or not
\* the metadata document names the file; update does so for waypoint lists
\* shorter than 2 as well.
C5_AbsentFileNotFound ==
    \A filename \in Targets \ DOMAIN files :
        /\ \A req \in UpdateRequests :
              update_route(files, metadata, filename, req.waypoints, req.name,
                           req.description, now)
                 = Outcome(files, metadata, NotFound)
        /\ toggle_favorite(files, metadata, filename, now)
              = Outcome(files, metadata, NotFound)
        /\ delete_route(files, metadata, filename)
              = Outcome(files, metadata, [kind |-> "bool", value |-> FALSE])

\* a state whose metadata document names a file the folder does not hold,
\* where update with a single waypoint answers not found
C5_Witness ==
    \E filename \in DOMAIN metadata \ DOMAIN files :
        /\ update_route(files, metadata, filename, OnePoint, None, None, now).result
              = NotFound
        /\ toggle_favorite(files, metadata, filename, now).result = NotFound
        /\ ~delete_route(files, metadata, filename).result.value

-----------------------------------------------------------------------------
(* C6 *)

\* the metadata fields an update call supplies
Supplied(request) ==
    {k \in {"name", "description"} : request[k] # None}

\* C6: after a successful update(f, ...), f's record differs from the one
\* before only in the supplied fields and modified_at: a supplied field holds
\* the supplied value, modified_at holds the call's clock reading, every other
\* field is as before; every other record and every other file is as before;
\* and f's GPX file holds the given waypoints under the resulting name and
\* description.
C6_UpdatePatchesOnlySupplied ==
    last.op = "update"
        => LET f == last.filename
               before == RecordOf(last.pre_metadata, f)
               after == metadata[f]
               resulting_name == Get(after, "name", Stem(f))
               resulting_description == Get(after, "description", EmptyStr)
           IN  /\ \A k \in Supplied(last.request) : after[k] = last.request[k]
               /\ after.modified_at = IsoFormat(last.t)
               /\ SameExcept(before, after,
                             Supplied(last.request) \cup {"modified_at"})
               /\ SameElsewhere(last.pre_metadata, metadata, f)
               /\ SameElsewhere(last.pre_files, files, f)
               /\ files[f].name = resulting_name
               /\ resulting_description # EmptyStr
                     => files[f].description = resulting_description
               /\ files[f].segments
                     = <<[i \in 1..Len(last.request.waypoints) |->
                            <<last.request.waypoints[i][1],
                              last.request.waypoints[i][2]>>]>>

\* an update that supplies a name only, of a created route whose record
\* holds a route type other than the default and a description
C6_Witness ==
    /\ last.op = "update"
    /\ Supplied(last.request) = {"name"}
    /\ Get(RecordOf(last.pre_metadata, last.filename), "route_type", "cycling")
          = "hiking"
    /\ metadata[last.filename].route_type = "hiking"
    /\ metadata[last.filename].name # last.pre_metadata[last.filename].name
    /\ metadata[last.filename].created_at # metadata[last.filename].modified_at

-----------------------------------------------------------------------------
(* C7 *)

\* C7 (as claimed): a snapshotVersion call leaves the GPX file and the
\* metadata record of a snapshot that existed before it as they were.
C7_SnapshotNeverOverwrites ==
    last.op = "create_version_backup"
        => \A v \in DOMAIN last.pre_files :
              IsSnapshot(last.pre_metadata, v)
                  => /\ v \in DOMAIN files
                     /\ files[v] = last.pre_files[v]
                     /\ v \in DOMAIN metadata
                     /\ metadata[v] = last.pre_metadata[v]

-----------------------------------------------------------------------------
(* C8 *)

\* C8 (as claimed): an update, toggleFavorite or snapshotVersion call on a
\* version snapshot v leaves v's GPX file and metadata record as they were
\* and adds no snapshot whose original_file is v.
C8_SnapshotsImmutable ==
    (/\ last.op \in {"update", "toggle_favorite", "create_version_backup"}
     /\ last.filename \in DOMAIN last.pre_files
     /\ IsSnapshot(last.pre_metadata, last.filename))
        => /\ files[last.filename] = last.pre_files[last.filename]
           /\ metadata[last.filename] = last.pre_metadata[last.filename]
           /\ SnapshotsOf(metadata, last.filename)
                 = SnapshotsOf(last.pre_metadata, last.filename)

-----------------------------------------------------------------------------
(* C9 *)

\* (not a.is_favorite, a.modified_at, a.name) <= (not b.is_favorite,
\* b.modified_at, b.name) as Python compares tuples: false where the
\* comparison raises
TupleLeq(a, b) ==
    \/ a.is_favorite /\ ~b.is_favorite
    \/ /\ a.is_favorite = b.is_favorite
       /\ a.modified_at # b.modified_at
       /\ a.modified_at # None
       /\ b.modified_at # None
       /\ StrLess(a.modified_at, b.modified_at)
    \/ /\ a.is_favorite = b.is_favorite
       /\ a.modified_at = b.modified_at
       /\ (a.name = b.name \/ StrLess(a.name, b.name))

\* C9: in every reachable state and for every query box, any two adjacent
\* routes a, b of the list that list returns satisfy (not a.is_favorite,
\* a.modified_at, a.name) <= (not b.is_favorite, b.modified_at, b.name).
C9_ListSorted ==
    \A bounds \in QueryBoxes :
        LET listed == get_routes(files, metadata, bounds)
        IN  listed.kind = "list"
                => \A i \in 1..(Len(listed.routes) - 1) :
                      TupleLeq(listed.routes[i], listed.routes[i + 1])

\* list returns a favorite ahead of a route whose filename sorts before it
C9_Witness ==
    LET listed == get_routes(files, metadata, NoneRec)
    IN  /\ listed.kind = "list"
        /\ Len(listed.routes) >= 2
        /\ listed.routes[1].is_favorite
        /\ ~listed.routes[2].is_favorite
        /\ StrLess(listed.routes[2].filename, listed.routes[1].filename)

-----------------------------------------------------------------------------
(* C10 *)

\* box a lies fully inside box b
Inside(a, b) ==
    /\ b.south <= a.south /\ a.north <= b.north
    /\ b.west <= a.west /\ a.east <= b.east

\* box a lies entirely outside box b
Outside(a, b) ==
    \/ a.south >= b.north \/ a.north <= b.south
    \/ a.west >= b.east \/ a.east <= b.west

\* the files get_routes can decode and whose waypoints give them a
\* bounding box, each with that box
BoxOf(filename) ==
    calculate_route_stats(parse_gpx_file(filename, files[filename]).waypoints).bounds

Boxed ==
    {f \in DOMAIN files :
        /\ parse_gpx_file(f, files[f]) # NoneRec
        /\ BoxOf(f) # NoneRec}

Degenerate(box) == box.north <= box.south \/ box.east <= box.west

-----------------------------------------------------------------------------
(* C11 *)

\* the filename without its ".gpx"
WithoutExt(filename) == SubSeq(filename, 1, Len(filename) - Len(GpxExt))

\* route shows what a file without a metadata record is given
ShowsDefaults(route, filename) ==
    /\ route.filename = filename
    /\ route.name = WithoutExt(filename)
    /\ route.description = EmptyStr
    /\ route.is_favorite = FALSE
    /\ route.route_type = "cycling"

\* the decodable GPX files of the folder for which the metadata document,
\* as the service reads it, has no record
Unrecorded ==
    {f \in DOMAIN files :
        /\ EndsWith(f, GpxExt)
        /\ f \notin DOMAIN ReadMetadata
        /\ parse_gpx_file(f, files[f]) # NoneRec}

-----------------------------------------------------------------------------
(* C12 *)

\* a GPX file of the folder that cannot be decoded
Undecodable(f) == f \in DOMAIN files /\ parse_gpx_file(f, files[f]) = NoneRec

\* C12 (as claimed): get returns None only for a filename that has no file,
\* so that an existing file that cannot be decoded is told apart from a
\* missing one; list leaves the undecodable file out and still returns
\* the routes it can decode.
C12_GetNoneOnlyWhenAbsent ==
    \A f \in Targets :
        /\ get_route(files, ReadMetadata, f).kind = "None" => f \notin DOMAIN files
        /\ Undecodable(f)
              => LET listed == get_routes(files, ReadMetadata, NoneRec)
                 IN  listed.kind = "list"
                        => /\ f \notin FilenamesOf(listed.routes)
                           /\ FilenamesOf(listed.routes)
                                 = {g \in DOMAIN files : ~Undecodable(g)}

-----------------------------------------------------------------------------
(* C13 *)

\* the filenames of a list of version entries, in order
VersionFilenames(versions) == [i \in 1..Len(versions) |-> versions[i].filename]

\* C13 (as claimed): listVersions(f) returns exactly the version snapshots
\* of f, those recorded with original_file = f whose file exists, newest
\* first by filename; no live route and no snapshot of another route is
\* among them.
C13_ListVersionsExact ==
    \A f \in Targets :
        LET names == VersionFilenames(get_route_versions(files, ReadMetadata, f))
        IN  /\ {names[i] : i \in 1..Len(names)}
                  = SnapshotsOf(ReadMetadata, f) \cap DOMAIN files
            /\ \A i \in 1..(Len(names) - 1) : StrLess(names[i + 1], names[i])

-----------------------------------------------------------------------------
(* C14 *)

\* the coordinate pairs of a waypoint list, labels dropped
Coordinates(waypoints) ==
    [i \in 1..Len(waypoints) |-> <<waypoints[i][1], waypoints[i][2]>>]

\* C14: when a waypoint list of length >= 2 has been encoded and saved and
\* the file is decoded, the first track of the decoded data is the list's
\* coordinate sequence, same length and same order, whether the list is
\* longer than 5 points or not.
C14_RoundTrip ==
    (/\ last.op = "decode"
     /\ last.source.op = "encode"
     /\ Len(last.source.waypoints) >= 2)
        => /\ last.gpx_data # NoneRec
           /\ Len(last.gpx_data.tracks) = 1
           /\ last.gpx_data.tracks[1] = Coordinates(last.source.waypoints)

\* the six-point list has been encoded and decoded: six track points, two
\* waypoints
C14_Witness ==
    /\ last.op = "decode"
    /\ last.source.op = "encode"
    /\ last.source.waypoints = LongRoute
    /\ Len(last.gpx_data.tracks[1]) = Len(LongRoute)
    /\ Len(last.gpx_data.waypoints) < Len(LongRoute)

-----------------------------------------------------------------------------
(* C18 *)

\* the first and the last point of every track, labelled Start and End
RECURSIVE StartsAndEnds(_)
StartsAndEnds(tracks) ==
    IF tracks = <<>> THEN <<>>
    ELSE <<<<Head(tracks)[1][1], Head(tracks)[1][2], <<"Start">>>>,
           <<Head(tracks)[Len(Head(tracks))][1],
             Head(tracks)[Len(Head(tracks))][2], <<"End">>>>>>
         \o StartsAndEnds(Tail(tracks))

\* C18 (as claimed): when a file that declares no waypoint and has at least
\* one non-empty track has been decoded, the decoded waypoints are, track by
\* track, the first and the last point labelled Start and End, tracks of a
\* single point included, so that there are at least 2 of them.
C18_DecodeFallback ==
    (/\ last.op = "decode"
     /\ last.gpx_data # NoneRec
     /\ files[SavedFile].waypoints = <<>>
     /\ last.gpx_data.tracks # <<>>)
        => /\ last.gpx_data.waypoints = StartsAndEnds(last.gpx_data.tracks)
           /\ Len(last.gpx_data.waypoints) >= 2

-----------------------------------------------------------------------------
(* C19 *)

\* every waypoint of the list is at the place of the one before it
Stationary(waypoints) ==
    \A i \in 2..Len(waypoints) :
        /\ waypoints[i][1] = waypoints[i - 1][1]
        /\ waypoints[i][2] = waypoints[i - 1][2]

\* C19 (as claimed): the distance calculate_route_stats returns is not
\* negative, is 0 exactly for lists of fewer than 2 waypoints, and is not
\* less than the distance of the list without its last waypoint.
C19_DistanceZeroOnlyIfShort ==
    last.op = "stats"
        => /\ last.stats.distance_km >= 0
           /\ last.stats.distance_km = 0 <=> Len(last.waypoints) < 2
           /\ last.appended => last.stats.distance_km >= last.shorter.distance_km

\* C19 (amended): the distance calculate_route_stats returns is not
\* negative, is 0 for lists of fewer than 2 waypoints and for lists whose
\* waypoints are all at one place, and is not less than the distance of the
\* list without its last waypoint.
C19_StatsMonotone ==
    last.op = "stats"
        => /\ last.stats.distance_km >= 0
           /\ Len(last.waypoints) < 2 => last.stats.distance_km = 0
           /\ Stationary(last.waypoints) => last.stats.distance_km = 0
           /\ last.appended => last.stats.distance_km >= last.shorter.distance_km

\* a waypoint that leads back to the start has been appended to a list of
\* two different places: the distance grew
C19_Witness ==
    /\ last.op = "stats"
    /\ last.appended
    /\ Len(last.waypoints) > 2
    /\ Coordinates(last.waypoints)[1]
          = Coordinates(last.waypoints)[Len(last.waypoints)]
    /\ last.shorter.distance_km > 0
    /\ last.stats.distance_km > last.shorter.distance_km

-----------------------------------------------------------------------------
(* C15 *)

\* the waypoints a route shows for a list of n >= 2 input waypoints: all of
\* them up to 5, the first and the last beyond
Shown(waypoints) ==
    IF Len(waypoints) <= 5 THEN Coordinates(waypoints)
    ELSE <<Coordinates(waypoints)[1], Coordinates(waypoints)[Len(waypoints)]>>

\* C15: after a successful create or update, whose input had n >= 2
\* waypoints, the route the call returned has at least 2 waypoints, all n
\* when n <= 5 and the first and the last when n > 5, and get returns the
\* same waypoints as long as no other call has written.
C15_AtLeastTwoWaypoints ==
    last.op \in {"create", "update"}
        => LET returned == last.result.route
               got == get_route(files, ReadMetadata, returned.filename)
           IN  /\ Len(last.request.waypoints) >= 2
               /\ Len(returned.waypoints) >= 2
               /\ Coordinates(returned.waypoints) = Shown(last.request.waypoints)
               /\ got.kind = "route"
               /\ got.route.waypoints = returned.waypoints

\* a route created from two waypoints has been updated with the long
\* route: six track points, two waypoints
C15_Witness ==
    /\ last.op = "update"
    /\ Len(last.request.waypoints) > 5
    /\ "created_by" \in DOMAIN RecordOf(metadata, last.filename)
    /\ Len(last.pre_files[last.filename].segments[1]) = 2
    /\ Len(last.result.route.tracks[1]) = Len(last.request.waypoints)
    /\ Len(last.result.route.waypoints) = 2

-----------------------------------------------------------------------------
(* C17 *)

\* the records of md that create_route wrote
CreatedRecords(md) == {f \in DOMAIN md : "created_by" \in DOMAIN md[f]}

\* C17: an update, toggleFavorite or snapshotVersion call leaves the
\* created_at of every record that create wrote as it was, and an update
\* or toggleFavorite call writes its clock reading to the modified_at of
\* the record it is about.
C17_CreatedAtImmutable ==
    last.op \in {"update", "toggle_favorite", "create_version_backup"}
        => /\ \A f \in CreatedRecords(last.pre_metadata) :
                 /\ f \in DOMAIN metadata
                 /\ metadata[f].created_at = last.pre_metadata[f].created_at
           /\ last.op \in {"update", "toggle_favorite"}
                 => metadata[last.filename].modified_at = IsoFormat(last.t)

\* a created route has been updated at a later clock reading: created_at
\* kept, modified_at moved on
C17_Witness ==
    /\ last.op = "update"
    /\ last.filename \in CreatedRecords(last.pre_metadata)
    /\ metadata[last.filename].created_at
          = last.pre_metadata[last.filename].created_at
    /\ metadata[last.filename].modified_at
          # last.pre_metadata[last.filename].modified_at
    /\ metadata[last.filename].modified_at
          # metadata[last.filename].created_at

-----------------------------------------------------------------------------
(* C16 *)

\* client p's call has written its record, no other client's call is about
\* the same filename, no write has failed, and the stored document does not
\* hold the record p wrote
Lost(p) ==
    /\ "written" \in DOMAIN procs[p]
    /\ \A q \in Procs \ {p} :
          /\ "filename" \in DOMAIN procs[q] => procs[q].filename # procs[p].filename
          /\ "write_failed" \in DOMAIN procs[q] => ~procs[q].write_failed
    /\ RecordOf(metadata, procs[p].filename) # procs[p].written

\* client q has written a dict it had read before another client wrote
WroteStale(q) == "written" \in DOMAIN procs[q] /\ procs[q].stale

\* C16: with two clients running their calls statement by statement, a
\* completed change is missing from the stored document only if the other
\* client wrote a dict it had read before that change was written; when no
\* call reads before and writes after another call's write, that is when
\* calls run one at a time, no change is lost.
C16_LostOnlyIfInterleaved ==
    \A p \in Procs : Lost(p) => \E q \in Procs \ {p} : WroteStale(q)

\* both clients have toggled the favorite flag of different files and
\* returned, and the stored document lacks the change of one of them
C16_Witness ==
    /\ \A p \in Procs :
          /\ procs[p].pc = "done"
          /\ procs[p].op = "toggle_favorite"
          /\ procs[p].result.kind = "favorite"
          /\ procs[p].result.is_favorite
    /\ \E p \in Procs :
          /\ Lost(p)
          /\ procs[p].filename \notin DOMAIN metadata

-----------------------------------------------------------------------------
(* C20 *)

\* the create calls that have saved their file
Creating ==
    {p \in Procs : /\ procs[p].pc # "idle"
                   /\ procs[p].op = "create"
                   /\ procs[p].filename # EmptyStr}

\* the filename of p's create call was new when the call began and no
\* other client's call is about it
NewFilename(p) ==
    /\ procs[p].fresh
    /\ \A q \in Procs \ {p} :
          "filename" \in DOMAIN procs[q] => procs[q].filename # procs[p].filename

\* C20: at every statement of a create call the GPX file of its filename
\* exists, and the metadata document holds a record for a new filename
\* only once the call has written it; a create call whose metadata write
\* failed ended with the IOError and returned no route, its GPX file is
\* still in the folder, and get shows it with the defaults of a file
\* without a record.
C20_FileBeforeMetadata ==
    \A p \in Procs :
        p \in Creating
            => LET f == procs[p].filename
               IN  /\ f \in DOMAIN files
                   /\ (NewFilename(p) /\ procs[p].pc \in {"read", "write"})
                         => f \notin DOMAIN ReadMetadata
                   /\ (procs[p].pc = "done") =>
                         (procs[p].result.kind = "route" <=> ~procs[p].write_failed)
                   /\ ("write_failed" \in DOMAIN procs[p] /\ procs[p].write_failed)
                         => /\ procs[p].pc = "done"
                            /\ procs[p].result.kind = "IOError"
                            /\ NewFilename(p)
                                  => LET got == get_route(files, ReadMetadata, f)
                                     IN  /\ got.kind = "route"
                                         /\ ShowsDefaults(got.route, f)
                                         /\ got.route.created_at = None

\* a create call has ended with the IOError of its metadata write while the
\* other client's toggle was recorded: the new file is in the folder and
\* has no record
C20_Witness ==
    \E p \in Creating, q \in Procs :
        /\ procs[p].pc = "done"
        /\ procs[p].write_failed
        /\ procs[p].result.kind = "IOError"
        /\ NewFilename(p)
        /\ procs[p].filename \in DOMAIN files
        /\ procs[p].filename \notin DOMAIN metadata
        /\ procs[q].pc = "done"
        /\ procs[q].op = "toggle_favorite"
        /\ procs[q].filename \in DOMAIN metadata

-----------------------------------------------------------------------------
(* C21 *)

\* the metadata records with no file in the folder
StaleEntries == DOMAIN ReadMetadata \ DOMAIN files

\* the metadata document without its stale entries
LiveRecords == [f \in DOMAIN ReadMetadata \cap DOMAIN files |-> ReadMetadata[f]]

\* C21: in every reachable state get returns a route for a filename only if
\* its GPX file is in the folder, and returns None, not an error, for a
\* filename that has a metadata record and no file; every route of the list
\* that list returns is a file of the folder; and get and list answer
\* exactly what they answer when the stale entries are taken out of the
\* metadata document, so a stale entry changes no answer and causes no
\* failure.
C21_FolderIsTruth ==
    /\ \A f \in Targets :
          LET got == get_route(files, ReadMetadata, f)
          IN  /\ got.kind = "route" => f \in DOMAIN files
              /\ f \notin DOMAIN files => got = NotFound
              /\ got = get_route(files, LiveRecords, f)
    /\ LET listed == get_routes(files, ReadMetadata, NoneRec)
       IN  /\ listed.kind = "list"
                 => FilenamesOf(listed.routes) \subseteq DOMAIN files
           /\ listed = get_routes(files, LiveRecords, NoneRec)

\* a delete has left a metadata record without its file, get of that
\* filename returns None and list returns the routes of the folder
C21_Witness ==
    /\ last.op = "delete"
    /\ StaleEntries # {}
    /\ \A f \in StaleEntries : get_route(files, ReadMetadata, f) = NotFound
    /\ LET listed == get_routes(files, ReadMetadata, NoneRec)
       IN  /\ listed.kind = "list"
           /\ FilenamesOf(listed.routes) = {OtherFile}

-----------------------------------------------------------------------------
(* C22 *)

\* the files of dir that md records as version snapshots
VersionFiles(dir, md) == {v \in DOMAIN dir : IsSnapshot(md, v)}

\* the version snapshot records of md
VersionRecords(md) == [v \in {k \in DOMAIN md : IsSnapshot(md, k)} |-> md[v]]

\* C22 (as claimed): an update call, accepted or refused, on any filename
\* leaves the set of version snapshot files and every version snapshot
\* record as they were, and get_route_versions of that filename answers
\* after the call what it answered before.
C22_UpdateKeepsVersions ==
    \A filename \in Targets, req \in UpdateRequests :
        LET out == update_route(files, ReadMetadata, filename, req.waypoints,
                                req.name, req.description, now)
        IN  /\ VersionFiles(out.files, out.metadata) = VersionFiles(files, ReadMetadata)
            /\ VersionRecords(out.metadata) = VersionRecords(ReadMetadata)
            /\ get_route_versions(out.files, out.metadata, filename)
                  = get_route_versions(files, ReadMetadata, filename)

-----------------------------------------------------------------------------
(* C23 *)

\* the live routes of a folder: the GPX files md does not record as
\* version snapshots
LiveRoutes(dir, md) == {g \in DOMAIN dir : EndsWith(g, GpxExt) /\ ~IsSnapshot(md, g)}

\* C23 (as claimed): after a successful delete(f) of a live route f, every
\* other live route g still has the GPX file and the metadata record it had
\* before the call, and so has every version snapshot of g.
C23_DeleteSparesOthers ==
    (/\ last.op = "delete"
     /\ last.filename \in LiveRoutes(last.pre_files, last.pre_metadata))
        => \A g \in LiveRoutes(last.pre_files, last.pre_metadata) \ {last.filename} :
              \A h \in {g} \cup (SnapshotsOf(last.pre_metadata, g) \cap DOMAIN last.pre_files) :
                  /\ h \in DOMAIN files
                  /\ files[h] = last.pre_files[h]
                  /\ RecordOf(metadata, h) = RecordOf(last.pre_metadata, h)

-----------------------------------------------------------------------------
(* C24 *)

\* the GPX files of the folder that parse_gpx_file can read
Decodable ==
    {f \in DOMAIN files : EndsWith(f, GpxExt) /\ parse_gpx_file(f, files[f]) # NoneRec}

\* the metadata record of f carries modified_at
HasModifiedAt(f) == "modified_at" \in DOMAIN RecordOf(ReadMetadata, f)

\* C24 (as claimed): in every reachable state whose folder holds a decodable
\* file with a modified_at in its metadata record and a decodable file
\* without one, list returns a list and raises no error.
C24_ListNeverFails ==
    (\E f, g \in Decodable : HasModifiedAt(f) /\ ~HasModifiedAt(g))
        => get_routes(files, ReadMetadata, NoneRec).kind = "list"


====
